---- MODULE Spec2Model ----
(***************************************************************************)
(* Medical Imaging Diagnosis Agent (src/app.py): a Streamlit script that   *)
(* is re-executed from the top on every widget interaction of a session.   *)
(* The model follows one script run per interaction; the analysis handler  *)
(* (lines 154-187) is split at the points where it touches the shared      *)
(* temporary file or the network, so that sessions of one process          *)
(* interleave there.                                                       *)
(***************************************************************************)
EXTENDS Integers, Sequences, FiniteSets

VARIABLES
    live,            \* the sessions connected to the process
    secrets,         \* "SERPER_API_KEY" in st.secrets (static, process-wide)
    GEMINI_API_KEY,  \* st.session_state.GEMINI_API_KEY, per session
    uploaded_file,   \* the file_uploader widget's value, per session
    pc,              \* position of the session's script run
    medical_agent,   \* whether the run's medical_agent is an Agent (not None)
    shown,           \* static elements the run has rendered, per session
    analysis,        \* elements rendered into analysis_container, in order
    run,             \* what the current run's handler has done so far
    fs               \* the working directory: path -> file

vars == <<live, secrets, GEMINI_API_KEY, uploaded_file, pc, medical_agent,
          shown, analysis, run, fs>>

(***************************************************************************)
(* Bounds and input domains                                                *)
(***************************************************************************)
MaxItems == 2

AllSessions == {1, 2}

None == "None"

Keys == {"K1"}

Texts == {"### Findings...", "### Normal study"}

ItemA == [title |-> "A", link |-> "http://x", snippet |-> "s"]

ItemB == [title |-> "B", link |-> "http://y", snippet |-> "t"]

\* an item of the response that carries no "snippet" key
ItemC == [title |-> "C", link |-> "http://z"]

Items == {ItemA, ItemB, ItemC}

RECURSIVE SeqsUpTo(_, _)
SeqsUpTo(S, n) ==
    IF n = 0 THEN {<<>>}
    ELSE LET shorter == SeqsUpTo(S, n - 1)
         IN  shorter \cup {Append(q, x) : q \in shorter, x \in S}

ItemSeqs == SeqsUpTo(Items, MaxItems)

\* response bodies: not JSON, a JSON object without "items", one with "items"
NotJson == [json |-> FALSE, has_items |-> FALSE, items |-> <<>>]

NoItems == [json |-> TRUE, has_items |-> FALSE, items |-> <<>>]

WithItems(q) == [json |-> TRUE, has_items |-> TRUE, items |-> q]

Bodies == {NotJson, NoItems} \cup {WithItems(q) : q \in ItemSeqs}

Statuses == {200, 300, 403, 500}

AllResponses == [status : Statuses, body : Bodies]

\* with two sessions the search endpoint's answers are narrowed to one per
\* way the call can end: the temporary file does not depend on them
FewResponses ==
    { [status |-> 200, body |-> WithItems(<<ItemA>>)],
      [status |-> 403, body |-> NotJson] }

Responses == IF Cardinality(live) > 1 THEN FewResponses ELSE AllResponses

ModelTexts == IF Cardinality(live) > 1 THEN {"### Findings..."} ELSE Texts

\* files
NoFile == [name |-> "", ext |-> "", image |-> FALSE, data |-> <<>>]

\* what the user of session s can pick: data identifies the bytes
Offered(s) ==
    { [name |-> "scan.png", ext |-> "png", image |-> TRUE,
       data |-> <<s, "scan.png">>],
      [name |-> "study.dicom", ext |-> "dicom", image |-> FALSE,
       data |-> <<s, "study.dicom">>],
      [name |-> "notes.txt", ext |-> "txt", image |-> TRUE,
       data |-> <<s, "notes.txt">>] }

Absent == [exists |-> FALSE, data |-> <<>>]

FileOf(d) == [exists |-> TRUE, data |-> d]

(***************************************************************************)
(* Pure parts of the script                                                *)
(***************************************************************************)
\* Python truthiness of the key: None and "" are falsy
Truthy(v) == v \notin {None, ""}

\* lines 9-19
google_custom_search(response) ==
    IF response.status >= 400 /\ response.status < 600
    THEN [raised |-> "HTTPError", value |-> <<>>]
    ELSE IF ~response.body.json
    THEN [raised |-> "JSONDecodeError", value |-> <<>>]
    ELSE [raised |-> "",
          value |-> IF response.body.has_items THEN response.body.items
                    ELSE <<>>]

\* the sidebar without the check of lines 48-49
Sidebar_NoSecretsCheck(key, sec) ==
    IF ~Truthy(key) THEN {"key_input"} ELSE {"key_configured", "reset_button"}

\* lines 29-49: the sidebar
Sidebar(key, sec) ==
    (IF ~Truthy(key) THEN {"key_input"} ELSE {"key_configured", "reset_button"})
    \cup (IF ~sec THEN {"secrets_error"} ELSE {})

\* the agent built as soon as the user's key is there
AgentReady_KeyOnly(key, sec) == Truthy(key)

\* line 63
AgentReady(key, sec) == Truthy(key) /\ sec

\* lines 73-74
AgentWarning(agent) == IF ~agent THEN {"warning"} ELSE {}

\* line 126: the uploader's allow-list
allowed_types == {"jpg", "jpeg", "png", "dicom"}

\* line 134: Image.open raises on bytes that are no image PIL can read
ImageOpen(file) == file.image

\* the button rendered although Image.open raised
ImageArea_ButtonAlways(file) ==
    IF file = NoFile THEN {"info"}
    ELSE IF ImageOpen(file) THEN {"preview", "button"}
    ELSE {"exception", "button"}

\* lines 130-151 and 188-189
ImageArea(file) ==
    IF file = NoFile THEN {"info"}
    ELSE IF ImageOpen(file) THEN {"preview", "button"}
    ELSE {"exception"}

\* a temporary file of the session's own
image_path_PerSession(s) == IF s = 1 THEN "temp_1.png" ELSE "temp_2.png"

\* line 155
image_path(s) == "temp_medical_image.png"

Paths == {image_path(s) : s \in AllSessions}

\* lines 162-169
ReportBlock(content) ==
    << <<"header", "Analysis Results">>, <<"rule">>, <<"markdown", content>>,
       <<"rule">>, <<"caption">> >>

\* lines 179-181 for one result; a missing key raises KeyError where it is read
RenderItem(result) ==
    IF "title" \notin DOMAIN result \/ "link" \notin DOMAIN result
    THEN [out |-> <<>>, raised |-> TRUE]
    ELSE IF "snippet" \notin DOMAIN result
    THEN [out |-> << <<"link", result.title, result.link>> >>,
          raised |-> TRUE]
    ELSE [out |-> << <<"link", result.title, result.link>>,
                     <<"text", result.snippet>>, <<"rule">> >>,
          raised |-> FALSE]

\* a loop that leaves after its first result
RenderResults_FirstOnly(results) ==
    IF results = <<>> THEN [out |-> <<>>, raised |-> FALSE]
    ELSE RenderItem(Head(results))

\* lines 178-181: the loop stops at the first exception
RECURSIVE RenderResults(_)
RenderResults(results) ==
    IF results = <<>> THEN [out |-> <<>>, raised |-> FALSE]
    ELSE LET first == RenderItem(Head(results))
         IN  IF first.raised THEN first
             ELSE LET rest == RenderResults(Tail(results))
                  IN  [out |-> first.out \o rest.out, raised |-> rest.raised]

ErrorMessage == <<"error", "Analysis error">>

\* an except clause that reports nothing
OnException_Silent(rendered) == rendered

\* lines 183-184: st.error follows whatever the try block had rendered
OnException(rendered) == rendered \o <<ErrorMessage>>

\* the search issued whatever agent.run did
AfterModelCall_AlwaysSearch(ok) == "search"

\* lines 161 and 183-185: where the handler goes after agent.run
AfterModelCall(ok) == IF ok THEN "search" ELSE "finally"

NewRun ==
    [clicked |-> FALSE, wrote |-> FALSE, model_calls |-> 0, search_calls |-> 0,
     given |-> Absent, response |-> [raised |-> FALSE, content |-> ""],
     http |-> [status |-> 0, body |-> NotJson],
     search_results |-> [raised |-> "", value |-> <<>>],
     crashed |-> FALSE, trigger |-> [key |-> None, file |-> NoFile]]

(***************************************************************************)
(* Initial state: sessions connected, first script run pending             *)
(***************************************************************************)
InitFor(sessions) ==
    /\ live = sessions
    /\ secrets \in BOOLEAN
    /\ GEMINI_API_KEY = [s \in AllSessions |-> None]
    /\ uploaded_file = [s \in AllSessions |-> NoFile]
    /\ pc = [s \in AllSessions |-> "start"]
    /\ medical_agent = [s \in AllSessions |-> FALSE]
    /\ shown = [s \in AllSessions |-> {}]
    /\ analysis = [s \in AllSessions |-> <<>>]
    /\ run = [s \in AllSessions |-> NewRun]
    /\ fs = [p \in Paths |-> Absent]

Init == InitFor({1})

InitConcurrent == InitFor(AllSessions)

(***************************************************************************)
(* One script run from the top (lines 22-151, 188-189) with the given      *)
(* widget values; clicked is the value st.button returns in this run       *)
(***************************************************************************)
ScriptRun(s, key, file, clicked) ==
    LET agent == AgentReady(key, secrets)
        handler == clicked /\ "button" \in ImageArea(file)
    IN  /\ GEMINI_API_KEY' = [GEMINI_API_KEY EXCEPT ![s] = key]
        /\ uploaded_file' = [uploaded_file EXCEPT ![s] = file]
        /\ medical_agent' = [medical_agent EXCEPT ![s] = agent]
        /\ shown' = [shown EXCEPT ![s] =
                        Sidebar(key, secrets) \cup AgentWarning(agent)
                        \cup ImageArea(file)]
        /\ analysis' = [analysis EXCEPT ![s] = <<>>]
        /\ run' = [run EXCEPT ![s] =
                      [NewRun EXCEPT !.clicked = handler,
                                     !.trigger = [key |-> key, file |-> file]]]
        /\ pc' = [pc EXCEPT ![s] = IF handler THEN "write" ELSE "idle"]
        /\ UNCHANGED <<live, secrets, fs>>

\* lines 37-40 and 43-45: the key is stored and st.rerun() ends the run there
AbortAndRerun(s, key) ==
    /\ GEMINI_API_KEY' = [GEMINI_API_KEY EXCEPT ![s] = key]
    /\ medical_agent' = [medical_agent EXCEPT ![s] = FALSE]
    /\ shown' = [shown EXCEPT ![s] = {}]
    /\ analysis' = [analysis EXCEPT ![s] = <<>>]
    /\ run' = [run EXCEPT ![s] = NewRun]
    /\ pc' = [pc EXCEPT ![s] = "start"]
    /\ UNCHANGED <<live, secrets, uploaded_file, fs>>

\* the run a rerun request (or the session's connection) starts
Rerun(s) ==
    /\ pc[s] = "start"
    /\ ScriptRun(s, GEMINI_API_KEY[s], uploaded_file[s], FALSE)

\* lines 29-40: the user submits the text input
EnterKey(s, gemini_key) ==
    /\ pc[s] = "idle"
    /\ "key_input" \in shown[s]
    /\ IF Truthy(gemini_key)
       THEN AbortAndRerun(s, gemini_key)
       ELSE ScriptRun(s, GEMINI_API_KEY[s], uploaded_file[s], FALSE)

\* lines 41-45
ResetKey(s) ==
    /\ pc[s] = "idle"
    /\ "reset_button" \in shown[s]
    /\ AbortAndRerun(s, None)

\* lines 123-128: a file outside the allow-list never becomes the widget's
\* value; an accepted one does and the script runs again
Upload(s, file) ==
    /\ pc[s] = "idle"
    /\ IF file.ext \in allowed_types
       THEN ScriptRun(s, GEMINI_API_KEY[s], file, FALSE)
       ELSE /\ shown' = [shown EXCEPT ![s] = @ \cup {"rejected"}]
            /\ UNCHANGED <<live, secrets, GEMINI_API_KEY, uploaded_file, pc,
                           medical_agent, analysis, run, fs>>

RemoveUpload(s) ==
    /\ pc[s] = "idle"
    /\ uploaded_file[s] # NoFile
    /\ ScriptRun(s, GEMINI_API_KEY[s], NoFile, FALSE)

CanTrigger(s) == pc[s] = "idle" /\ "button" \in shown[s]

\* lines 147-154: the user presses the button the last run rendered
ClickAnalyze(s) ==
    /\ CanTrigger(s)
    /\ ScriptRun(s, GEMINI_API_KEY[s], uploaded_file[s], TRUE)

(***************************************************************************)
(* The analysis handler, lines 154-187                                     *)
(***************************************************************************)
WriteOutcomes == {"ok", "open_fails", "write_fails"}

\* lines 155-157, before the try: open() creates or truncates the file,
\* write() fills it; an exception of either leaves the run uncaught
WriteTemp(s, outcome) ==
    /\ pc[s] = "write"
    /\ fs' = [fs EXCEPT ![image_path(s)] =
                 IF outcome = "ok" THEN FileOf(uploaded_file[s].data)
                 ELSE IF outcome = "write_fails" THEN FileOf(<<>>)
                 ELSE @]
    /\ run' = [run EXCEPT ![s].wrote = (outcome # "open_fails"),
                          ![s].crashed = (outcome # "ok")]
    /\ shown' = [shown EXCEPT ![s] =
                    IF outcome = "ok" THEN @ ELSE @ \cup {"exception"}]
    /\ pc' = [pc EXCEPT ![s] = IF outcome = "ok" THEN "try" ELSE "idle"]
    /\ UNCHANGED <<live, secrets, GEMINI_API_KEY, uploaded_file, medical_agent,
                   analysis>>

ModelOutcomes ==
    {[raised |-> TRUE, content |-> ""]}
    \cup {[raised |-> FALSE, content |-> t] : t \in ModelTexts}

\* lines 161-169 and 183-184: medical_agent.run reads the file at image_path;
\* with medical_agent None the attribute access raises and nothing is called
ModelCall(s, r) ==
    /\ pc[s] = "try"
    /\ LET called == medical_agent[s]
           ok == called /\ ~r.raised
       IN  /\ run' = [run EXCEPT
                        ![s].model_calls = IF called THEN @ + 1 ELSE @,
                        ![s].given = IF called THEN fs[image_path(s)] ELSE @,
                        ![s].response =
                            IF called THEN r
                            ELSE [raised |-> TRUE, content |-> ""]]
           /\ analysis' = [analysis EXCEPT ![s] =
                              IF ok THEN ReportBlock(r.content)
                              ELSE OnException(<<>>)]
           /\ pc' = [pc EXCEPT ![s] = AfterModelCall(ok)]
    /\ UNCHANGED <<live, secrets, GEMINI_API_KEY, uploaded_file, medical_agent,
                   shown, fs>>

LiteratureHeader == <<"header", "Relevant Medical Literature">>

\* lines 177-181 and 183-184: what follows a search that returned
Literature(results) ==
    LET r == RenderResults(results)
    IN  IF r.raised THEN OnException(<<LiteratureHeader>> \o r.out)
        ELSE <<LiteratureHeader>> \o r.out

\* lines 172-184: the arguments are evaluated first, st.secrets[...] raises
\* KeyError when the key is absent and then no request is sent
SearchCall(s, h) ==
    /\ pc[s] = "search"
    /\ LET called == secrets
           result == IF called THEN google_custom_search(h)
                     ELSE [raised |-> "KeyError", value |-> <<>>]
       IN  /\ run' = [run EXCEPT
                        ![s].search_calls = IF called THEN @ + 1 ELSE @,
                        ![s].http = IF called THEN h ELSE @,
                        ![s].search_results = result]
           /\ analysis' = [analysis EXCEPT ![s] =
                              IF result.raised # "" THEN OnException(@)
                              ELSE @ \o Literature(result.value)]
    /\ pc' = [pc EXCEPT ![s] = "finally"]
    /\ UNCHANGED <<live, secrets, GEMINI_API_KEY, uploaded_file, medical_agent,
                   shown, fs>>

\* line 186
Exists(s) ==
    /\ pc[s] = "finally"
    /\ pc' = [pc EXCEPT ![s] =
                 IF fs[image_path(s)].exists THEN "remove" ELSE "idle"]
    /\ UNCHANGED <<live, secrets, GEMINI_API_KEY, uploaded_file, medical_agent,
                   shown, analysis, run, fs>>

\* line 187: os.remove raises FileNotFoundError on a file that is gone
Remove(s) ==
    /\ pc[s] = "remove"
    /\ fs' = [fs EXCEPT ![image_path(s)] = Absent]
    /\ run' = [run EXCEPT ![s].crashed = ~fs[image_path(s)].exists]
    /\ shown' = [shown EXCEPT ![s] =
                    IF fs[image_path(s)].exists THEN @
                    ELSE @ \cup {"exception"}]
    /\ pc' = [pc EXCEPT ![s] = "idle"]
    /\ UNCHANGED <<live, secrets, GEMINI_API_KEY, uploaded_file, medical_agent,
                   analysis>>

(***************************************************************************)
(* Specifications                                                          *)
(***************************************************************************)
Next ==
    \/ \E s \in live : Rerun(s)
    \/ \E s \in live : \E k \in Keys \cup {""} : EnterKey(s, k)
    \/ \E s \in live : ResetKey(s)
    \/ \E s \in live : \E f \in Offered(s) : Upload(s, f)
    \/ \E s \in live : RemoveUpload(s)
    \/ \E s \in live : ClickAnalyze(s)
    \/ \E s \in live : \E o \in WriteOutcomes : WriteTemp(s, o)
    \/ \E s \in live : \E r \in ModelOutcomes : ModelCall(s, r)
    \/ \E s \in live : \E h \in Responses : SearchCall(s, h)
    \/ \E s \in live : Exists(s)
    \/ \E s \in live : Remove(s)

\* one session in the process (the deployment section 5 of the spec assumes)
Spec == Init /\ [][Next]_vars

\* two sessions of one process, their script runs in separate threads
SpecConcurrent == InitConcurrent /\ [][Next]_vars

(***************************************************************************)
(* Vocabulary of the properties                                            *)
(***************************************************************************)
InHandler(s) == pc[s] \in {"write", "try", "search", "finally", "remove"}

\* the run was an analysis trigger and its handling is over
Finished(s) == pc[s] = "idle" /\ run[s].clicked

ModelSucceeded(s) == run[s].model_calls = 1 /\ ~run[s].response.raised

SearchSucceeded(s) ==
    run[s].search_calls = 1 /\ run[s].search_results.raised = ""

ErrorCount(s) ==
    Cardinality({i \in DOMAIN analysis[s] : analysis[s][i] = ErrorMessage})

\* the shell's state of spec section 4.4, read off the page
ShellState(s) ==
    IF InHandler(s) THEN "Analyzing"
    ELSE IF ~Finished(s) THEN "Other"
    ELSE IF ErrorCount(s) > 0 THEN "Error"
    ELSE IF \E i \in DOMAIN analysis[s] : analysis[s][i] = LiteratureHeader
    THEN "Complete"
    ELSE "Other"

IsResultItem(x) == DOMAIN x = {"title", "link", "snippet"}

\* the literature entries of a sequence of items, built from its end
RECURSIVE Entries(_)
Entries(items) ==
    IF Len(items) = 0 THEN <<>>
    ELSE LET n == Len(items)
             x == items[n]
         IN  Entries(SubSeq(items, 1, n - 1))
             \o << <<"link", x.title, x.link>>, <<"text", x.snippet>>,
                   <<"rule">> >>

(***************************************************************************)
(* C1: once the handling of an analysis trigger has finished, the          *)
(* temporary file does not exist, whichever way the run ended (the write   *)
(* step failing included).                                                 *)
(***************************************************************************)
C1_TempFileGoneAfterTrigger ==
    \A s \in live : Finished(s) => ~fs[image_path(s)].exists

(***************************************************************************)
(* C2: within one trigger at most one model call and at most one search    *)
(* call are issued, a search call has been issued only when the model call *)
(* of the same trigger had returned successfully, and a model call that    *)
(* raised is followed by no search call.                                   *)
(***************************************************************************)
C2_SequentialChain ==
    \A s \in live :
        /\ run[s].model_calls \in {0, 1}
        /\ run[s].search_calls \in {0, 1}
        /\ (pc[s] = "search" \/ run[s].search_calls = 1) => ModelSucceeded(s)
        /\ run[s].response.raised =>
               run[s].search_calls = 0 /\ pc[s] # "search"

C2_Witness ==
    Finished(1) /\ run[1].model_calls = 1 /\ run[1].search_calls = 1

(***************************************************************************)
(* C3: in every script run that executes the agent initialisation (lines   *)
(* 61-74) the agent is constructed iff the session's model key is          *)
(* non-empty and the static search key is in the secrets; otherwise the    *)
(* agent is unset and the 'configure both keys' warning is shown.          *)
(***************************************************************************)
C3_AgentIffBothKeys ==
    \A s \in live :
        pc[s] # "start" =>
            /\ medical_agent[s] <=> (Truthy(GEMINI_API_KEY[s]) /\ secrets)
            /\ ("warning" \in shown[s]) <=> ~medical_agent[s]

C3_Witness ==
    /\ pc[1] = "idle" /\ medical_agent[1]
    /\ GEMINI_API_KEY[1] = "K1" /\ secrets /\ "warning" \notin shown[1]

(***************************************************************************)
(* C4: with the static search key absent, every script run that reaches    *)
(* the check shows the configuration error and no search call is ever      *)
(* issued, whatever the user enters, uploads or triggers.                  *)
(***************************************************************************)
C4_NoSearchWithoutStaticKey ==
    ~secrets =>
        \A s \in live :
            /\ pc[s] # "start" => "secrets_error" \in shown[s]
            /\ run[s].search_calls = 0
            /\ pc[s] # "search"

C4_Witness ==
    ~secrets /\ Finished(1) /\ Truthy(GEMINI_API_KEY[1]) /\ run[1].wrote

(***************************************************************************)
(* C5: while the agent is not constructed, an upload followed by the       *)
(* trigger writes no temporary file and attempts no model call.            *)
(***************************************************************************)
C5_NoAnalysisWithoutAgent ==
    \A s \in live :
        ~medical_agent[s] =>
            /\ ~run[s].wrote
            /\ run[s].model_calls = 0

(***************************************************************************)
(* C6: an exception of the model call or of the search call is caught and  *)
(* shown as one error message; a finished trigger is Complete only when    *)
(* both calls succeeded and Error otherwise; afterwards the session is     *)
(* still there and the user can trigger again with the same key and image. *)
(***************************************************************************)
C6_ErrorsCaughtAndRetry ==
    \A s \in live :
        (Finished(s) /\ ~run[s].crashed) =>
            /\ ShellState(s) \in {"Complete", "Error"}
            /\ ShellState(s) = "Complete" =>
                   ModelSucceeded(s) /\ SearchSucceeded(s)
            /\ ~(ModelSucceeded(s) /\ SearchSucceeded(s)) =>
                   ShellState(s) = "Error"
            /\ ShellState(s) = "Error" => ErrorCount(s) = 1
            /\ CanTrigger(s)
            /\ GEMINI_API_KEY[s] = run[s].trigger.key
            /\ uploaded_file[s] = run[s].trigger.file

C6_Witness ==
    /\ Finished(1) /\ ModelSucceeded(1)
    /\ run[1].search_calls = 1 /\ run[1].search_results.raised = "HTTPError"
    /\ ShellState(1) = "Error" /\ CanTrigger(1)

(***************************************************************************)
(* C7: google_custom_search fails, returning nothing, for every status     *)
(* that is not a success (2xx) status, and for a success status returns    *)
(* the body's items, or the empty sequence when the body has no items.     *)
(***************************************************************************)
C7_SearchFailsOnNonSuccess ==
    \A s \in live :
        run[s].search_calls = 1 =>
            LET h == run[s].http
                r == run[s].search_results
            IN  /\ ~(h.status >= 200 /\ h.status < 300) =>
                       r.raised # "" /\ r.value = <<>>
                /\ (h.status >= 200 /\ h.status < 300 /\ h.body.json) =>
                       /\ r.raised = ""
                       /\ r.value = IF h.body.has_items THEN h.body.items
                                    ELSE <<>>

(***************************************************************************)
(* C8: when the model call returned text T and the search call returned    *)
(* result items (each with title, link and snippet), the analysis          *)
(* container holds the report block with T unchanged, then the literature  *)
(* header, then one entry per item in the order returned.                  *)
(***************************************************************************)
C8_ReportThenEntriesInOrder ==
    \A s \in live :
        (/\ ModelSucceeded(s)
         /\ SearchSucceeded(s)
         /\ \A i \in DOMAIN run[s].search_results.value :
                IsResultItem(run[s].search_results.value[i])) =>
            analysis[s] =
                << <<"header", "Analysis Results">>, <<"rule">>,
                   <<"markdown", run[s].response.content>>, <<"rule">>,
                   <<"caption">>, LiteratureHeader >>
                \o Entries(run[s].search_results.value)

C8_Witness ==
    /\ Finished(1) /\ ModelSucceeded(1) /\ SearchSucceeded(1)
    /\ run[1].response.content = "### Findings..."
    /\ run[1].search_results.value = <<ItemB, ItemA>>
    /\ ShellState(1) = "Complete"
    /\ ~fs[image_path(1)].exists

(***************************************************************************)
(* C9: a file outside the allow-list never becomes the uploaded file, and  *)
(* the trigger exists, the temporary file is written and the model and     *)
(* search calls are made only in a run whose upload was decoded.           *)
(***************************************************************************)
C9_AnalysisOnlyAfterDecode ==
    \A s \in live :
        /\ uploaded_file[s] # NoFile => uploaded_file[s].ext \in allowed_types
        /\ ( \/ "button" \in shown[s]
             \/ InHandler(s)
             \/ run[s].clicked
             \/ run[s].wrote
             \/ run[s].model_calls > 0
             \/ run[s].search_calls > 0 ) =>
               uploaded_file[s] # NoFile /\ ImageOpen(uploaded_file[s])

C9_Witness ==
    /\ pc[1] = "idle"
    /\ uploaded_file[1].name = "study.dicom"
    /\ "exception" \in shown[1] /\ "rejected" \in shown[1]
    /\ ~CanTrigger(1) /\ ~run[1].wrote /\ ~fs[image_path(1)].exists

(***************************************************************************)
(* C10: all sessions write, read and remove one file.  Two sessions that   *)
(* have both written their upload and not yet called the model cannot      *)
(* both find their own bytes at their path; a state is reached in which    *)
(* one session's model call was given the other's bytes and the other's    *)
(* model call a file that the first one's cleanup had removed.             *)
(***************************************************************************)
C10_SharedTempFileRace ==
    \A s \in live : \A u \in live \ {s} :
        (pc[s] = "try" /\ pc[u] = "try") =>
            ~(/\ fs[image_path(s)] = FileOf(uploaded_file[s].data)
              /\ fs[image_path(u)] = FileOf(uploaded_file[u].data))

C10_Witness ==
    /\ run[1].model_calls = 1 /\ run[1].given = FileOf(<<2, "scan.png">>)
    /\ run[2].model_calls = 1 /\ run[2].given = Absent

====
